---- MODULE Spec2Model ----
(***************************************************************************)
(* monster-sync (msync): a per-repository rsync daemon with a PID-file     *)
(* process registry.  The model covers src/main.rs (the four commands      *)
(* start / stop / status / list) and src/sync.rs (SyncHandle and the       *)
(* watch loop).                                                            *)
(*                                                                         *)
(* Text is modelled as sequences of one-token strings, so that formatting  *)
(* (the PID written into the PID file), parsing (trim + parse::<u32>),     *)
(* path construction (with_file_name / with_extension) and glob matching   *)
(* are computed the way the code computes them.                            *)
(*                                                                         *)
(* Every system call of a command is one step, so that daemons, foreground *)
(* commands and the rest of the machine interleave between any two calls.  *)
(***************************************************************************)
EXTENDS Integers, Sequences, FiniteSets, TLC

\* ------------------------------------------------------------------ bounds
\* Process identifiers the operating system hands out: 1..MaxPid.
MaxPid == 2
\* Capacity used for a daemon's notification channel (the mpsc channel is
\* unbounded; the environment stops producing at this length).
MaxQueue == 2

PIDs == 1..MaxPid

\* Repository names the operator passes on the command line, as sequences of
\* characters: "a", "b" and the dotted name "a.x".
Repos == { <<"a">>, <<"b">>, <<"a", ".", "x">> }

\* Foreground command invocations that can be in flight at the same time.
Slots == {1, 2}

\* ------------------------------------------------------- configuration
\* SyncConfig (main.rs:13-23), loaded once per process and immutable.
SyncConfig ==
    [ remote_user        |-> <<"user">>,
      remote_host        |-> <<"host">>,
      base_local_path    |-> <<"/local">>,
      base_remote_path   |-> <<"/remote">>,
      sync_back          |-> <<"compile_commands.json">>,
      pid_file_path      |-> <<"/tmp", "/", "msync", ".", "pid">>,
      pid_file_prefix    |-> <<"repo_sync">>,
      pid_file_extention |-> <<"pid">>,
      use_server         |-> FALSE ]

\* ------------------------------------------------------- small helpers
Max(S) == CHOOSE x \in S : \A y \in S : y <= x

\* Index of the last path separator of a path (0 when there is none).
LastSep(path) ==
    LET seps == { i \in 1..Len(path) : path[i] = "/" }
    IN  IF seps = {} THEN 0 ELSE Max(seps)

\* Path::file_name: the final component.
FileName(path) == SubSeq(path, LastSep(path) + 1, Len(path))

\* Path::parent, with its trailing separator.
DirName(path) == SubSeq(path, 1, LastSep(path))

\* PathBuf::with_file_name: replace the final component.
WithFileName(path, name) == DirName(path) \o name

\* Path::file_stem: the file name up to its LAST dot; a dot in first position
\* starts a hidden file and is no extension separator.
FileStem(name) ==
    LET dots == { i \in 2..Len(name) : name[i] = "." }
    IN  IF dots = {} THEN name ELSE SubSeq(name, 1, Max(dots) - 1)

\* PathBuf::with_extension: the stem of the file name followed by the new
\* extension; an existing extension is REPLACED, not appended to.
WithExtension(path, ext) ==
    LET stem == FileStem(FileName(path))
    IN  DirName(path) \o stem \o (IF ext = <<>> THEN <<>> ELSE <<".">> \o ext)

\* PathBuf::join: an absolute component replaces the base; a relative one is
\* appended, after a separator unless the base already ends with one.
Join(base, name) ==
    IF name # <<>> /\ Head(name) = "/" THEN name
    ELSE IF base = <<>> \/ base[Len(base)] = "/" THEN base \o name
    ELSE base \o <<"/">> \o name

\* SyncHandle::new (sync.rs:18-30).
SyncHandle(cfg, repo_name) ==
    [ pid_file    |-> WithExtension(
                          WithFileName(cfg.pid_file_path,
                                       cfg.pid_file_prefix \o <<"_">> \o repo_name),
                          cfg.pid_file_extention),
      local_path  |-> Join(cfg.base_local_path, repo_name),
      remote_path |-> Join(cfg.base_remote_path, repo_name),
      repo_name   |-> repo_name ]

\* ------------------------------------------------ PID text: format, parse
DigitChars == <<"0", "1", "2", "3", "4", "5", "6", "7", "8", "9">>

IsDigit(c) == \E i \in 1..10 : DigitChars[i] = c

DigitVal(c) == (CHOOSE i \in 1..10 : DigitChars[i] = c) - 1

\* Decimal text of a PID, as the daemon writes it into its PID file.
RECURSIVE FormatPid(_)
FormatPid(n) ==
    IF n < 10 THEN << DigitChars[n + 1] >>
    ELSE FormatPid(n \div 10) \o << DigitChars[(n % 10) + 1] >>

IsSpace(c) == c \in {" ", "\n", "\t"}

\* str::trim: strip white space at both ends.
RECURSIVE TrimStart(_)
TrimStart(s) ==
    IF s # <<>> /\ IsSpace(Head(s)) THEN TrimStart(Tail(s)) ELSE s

RECURSIVE TrimEnd(_)
TrimEnd(s) ==
    IF s # <<>> /\ IsSpace(s[Len(s)]) THEN TrimEnd(SubSeq(s, 1, Len(s) - 1)) ELSE s

Trim(s) == TrimEnd(TrimStart(s))

RECURSIVE DecimalValue(_)
DecimalValue(s) ==
    IF s = <<>> THEN 0
    ELSE 10 * DecimalValue(SubSeq(s, 1, Len(s) - 1)) + DigitVal(s[Len(s)])

RECURSIVE StripZeros(_)
StripZeros(s) ==
    IF Len(s) > 1 /\ Head(s) = "0" THEN StripZeros(Tail(s)) ELSE s

\* u32::MAX, 4294967295, digit by digit.
U32MaxDigits == <<"4", "2", "9", "4", "9", "6", "7", "2", "9", "5">>

\* Whether x <= y for two digit strings of the same length.
RECURSIVE DigitsLeq(_, _)
DigitsLeq(x, y) ==
    IF x = <<>> THEN TRUE
    ELSE IF Head(x) = Head(y) THEN DigitsLeq(Tail(x), Tail(y))
    ELSE DigitVal(Head(x)) < DigitVal(Head(y))

\* Whether a string of digits denotes a value of at most u32::MAX.
FitsU32(digits) ==
    LET d == StripZeros(digits)
    IN  \/ Len(d) < Len(U32MaxDigits)
        \/ Len(d) = Len(U32MaxDigits) /\ DigitsLeq(d, U32MaxDigits)

\* PIDs of ten digits stand for themselves up to this value only; no process
\* table holds a PID that large.
PidCeiling == 2147483647

ParseError == -1

\* str::parse::<u32>: an optional "+", then one or more decimal digits whose
\* value fits 32 bits; anything else is an error.
ParseU32(s) ==
    LET body == IF s # <<>> /\ Head(s) = "+" THEN Tail(s) ELSE s
    IN  IF body = <<>> \/ \E i \in 1..Len(body) : ~IsDigit(body[i])
        THEN ParseError
        ELSE IF ~FitsU32(body) THEN ParseError
        ELSE IF Len(StripZeros(body)) = Len(U32MaxDigits) THEN PidCeiling
        ELSE DecimalValue(StripZeros(body))

\* read_to_string(..).trim().parse::<u32>() of main.rs:70-76, 93-97, 133.
ParsePidText(text) == ParseU32(Trim(text))

\* ------------------------------------------------------- remote transfers
\* Mutant: the remote-login form whatever the transport mode.
make_remote_url_login(cfg, handle) ==
    cfg.remote_user \o <<"@">> \o cfg.remote_host \o <<":">> \o handle.remote_path

\* SyncHandle::make_remote_url (sync.rs:32-49).
make_remote_url(cfg, handle) ==
    IF cfg.use_server
    THEN <<"rsync://">> \o cfg.remote_host \o <<"/">> \o handle.remote_path
    ELSE cfg.remote_user \o <<"@">> \o cfg.remote_host \o <<":">>
             \o handle.remote_path

\* The argument vector of the push (sync.rs:52-61).  Command::args hands
\* every argument to rsync verbatim: no shell removes the quote characters.
PushArgs(cfg, handle) ==
    << <<"-avz">>,
       <<"--delete">>,
       handle.local_path,
       <<"--exclude=", "'", ".git/", "'">>,
       <<"--filter=", "'", ":- .gitignore", "'">>,
       make_remote_url(cfg, handle) >>

\* The argument vector of the pull (sync.rs:80-88).
PullArgs(cfg, handle) ==
    << <<"-avz">>,
       <<"--include=", "'">> \o cfg.sync_back \o <<"'">>,
       <<"--exclude=", "'", "*", "'">>,
       make_remote_url(cfg, handle),
       handle.local_path >>

\* What rsync takes as its inclusion patterns: for each argument
\* --include=PATTERN, the text after the "=" sign, character for character.
IncludeFilters(args) ==
    { Tail(args[i]) : i \in { j \in 1..Len(args) : args[j] # <<>> /\ args[j][1] = "--include=" } }

Invocation(kind, args) == [kind |-> kind, args |-> args]

\* ------------------------------------------------------------------ state
NoFile == <<"<absent>">>

VARIABLES
    files,        \* PID-file path -> its text, or NoFile
    lock,         \* PID-file path -> PID holding the exclusive lock on it, or 0
    localExists,  \* repository -> whether its local working copy exists
    procs,        \* PID -> the process with that PID (the OS process table)
    cmd,          \* slot -> the foreground command invocation in that slot
    config        \* the configuration every process loads (main.rs:156-167)

vars == <<files, lock, localExists, procs, cmd, config>>

\* The Sync Target of repository r under the loaded configuration
\* (main.rs:171-181).
Handle(r) == SyncHandle(config, r)

\* The PID files the modelled repositories resolve to.
PidPaths == { SyncHandle(SyncConfig, r).pid_file : r \in Repos }

\* ------------------------------------------------------------ processes
NoProc ==
    [ kind |-> "none", repo |-> <<>>, pc |-> "-", queue |-> <<>>, term |-> FALSE,
      xfers |-> <<>>, item |-> "-", pushRes |-> "-", pullRes |-> "-", pulls |-> 0 ]

\* A process that has nothing to do with msync.
OtherProc == [NoProc EXCEPT !.kind = "other"]

\* The background process daemonize forks for `start repo`, before it has
\* created its PID file.
ForkedDaemon(repo) == [NoProc EXCEPT !.kind = "daemon", !.repo = repo, !.pc = "forked"]

Alive(p) == procs[p].kind # "none"

FreePids == { p \in PIDs : ~Alive(p) }

\* sysinfo::System::new_all(): a snapshot of the process table.
ProcessSnapshot == { p \in PIDs : Alive(p) }

\* The kernel releases a dead process's file locks.
Released(l, p) == [f \in PidPaths |-> IF l[f] = p THEN 0 ELSE l[f]]

\* A command stays "quiet" until somebody writes a PID file that the
\* command has removed.
Disturbed(c, f) ==
    [s \in Slots |-> IF f \in c[s].removed THEN [c[s] EXCEPT !.quiet = FALSE] ELSE c[s]]

\* ----------------------------------------------------------- environment
\* An unrelated process starts and is given a free PID.
env_spawn(p) ==
    /\ ~Alive(p)
    /\ procs' = [procs EXCEPT ![p] = OtherProc]
    /\ UNCHANGED <<files, lock, localExists, cmd, config>>

\* A process ends without being asked to by msync: an unrelated process
\* exits, a daemon crashes or is killed by hand.  Its PID file, if any, stays.
env_exit(p) ==
    /\ Alive(p)
    /\ procs' = [procs EXCEPT ![p] = NoProc]
    /\ lock' = Released(lock, p)
    /\ UNCHANGED <<files, localExists, cmd, config>>

\* A pending SIGTERM takes effect: neither the daemon nor an unrelated
\* process installs a handler, so the process terminates.
deliver_term(p) ==
    /\ Alive(p)
    /\ procs[p].term
    /\ procs' = [procs EXCEPT ![p] = NoProc]
    /\ lock' = Released(lock, p)
    /\ UNCHANGED <<files, localExists, cmd, config>>

\* Texts that can end up in a PID file without a daemon writing its PID:
\* an empty file, a negative number, a PID followed by a line break.
ForeignTexts == { <<>>, <<"-", "1">>, <<"1", "\n">> }

\* An existing PID file is overwritten from outside.
env_overwrite(f, text) ==
    /\ files[f] # NoFile
    /\ files[f] # text
    /\ files' = [files EXCEPT ![f] = text]
    /\ cmd' = cmd
    /\ UNCHANGED <<lock, localExists, procs, config>>

\* ------------------------------------------------ the daemon (background)
\* daemonize's child after the second fork (main.rs:52-57): open the PID file
\* (creating it when absent), take an exclusive non-blocking lock on it, and
\* write the own PID.  When another live process holds the lock the child
\* gets Outcome::Child(Err) and main returns the error (main.rs:64).
daemon_register(p) ==
    LET f == Handle(procs[p].repo).pid_file IN
    /\ procs[p].kind = "daemon"
    /\ procs[p].pc = "forked"
    /\ IF lock[f] # 0 /\ lock[f] # p
       THEN /\ procs' = [procs EXCEPT ![p] = NoProc]
            /\ UNCHANGED <<files, lock, cmd>>
       ELSE /\ files' = [files EXCEPT ![f] = FormatPid(p)]
            /\ lock' = [lock EXCEPT ![f] = p]
            /\ procs' = [procs EXCEPT ![p].pc = "registered"]
            /\ cmd' = Disturbed(cmd, f)
    /\ UNCHANGED <<localExists, config>>

\* sync::start_sync up to the loop (sync.rs:106-113): create the watcher and
\* subscribe to the local path; both results are unwrapped, so a failure
\* panics and the daemon is gone, its PID file left behind.
watch_subscribe(p, ok) ==
    /\ procs[p].kind = "daemon"
    /\ procs[p].pc = "registered"
    /\ ok => localExists[procs[p].repo]
    /\ IF ok
       THEN /\ procs' = [procs EXCEPT ![p].pc = "recv"]
            /\ lock' = lock
       ELSE /\ procs' = [procs EXCEPT ![p] = NoProc]
            /\ lock' = Released(lock, p)
    /\ UNCHANGED <<files, localExists, cmd, config>>

\* What the watcher sends into the channel: Ok(event) or Err(error).
Notifications == {"event", "error"}

\* The notify watcher thread delivers a notification; the channel buffers it
\* whatever the loop is doing.
watch_notify(p, n) ==
    /\ procs[p].kind = "daemon"
    /\ procs[p].pc \in {"recv", "push", "pull"}
    /\ Len(procs[p].queue) < MaxQueue
    /\ procs' = [procs EXCEPT ![p].queue = Append(@, n)]
    /\ UNCHANGED <<files, lock, localExists, cmd, config>>

\* Mutant: the push is spawned and not waited for; the loop goes straight
\* back to recv.
watch_recv_detached(p) ==
    LET h == Handle(procs[p].repo) IN
    /\ procs[p].kind = "daemon"
    /\ procs[p].pc = "recv"
    /\ procs[p].queue # <<>>
    /\ procs' = [procs EXCEPT
                   ![p].queue = Tail(@),
                   ![p].item = Head(procs[p].queue),
                   ![p].xfers = Append(@, Invocation("push", PushArgs(config, h)))]
    /\ UNCHANGED <<files, lock, localExists, cmd, config>>

\* One turn of the loop (sync.rs:115-120) up to the start of the push
\* (sync.rs:52-61).  rx.recv() yields Ok(x) for EVERY value the watcher sent,
\* x being Ok(event) or Err(error); the arm Err(e) of sync.rs:121 is taken
\* only when the sending side is gone, which it never is while the watcher
\* lives.  The loop blocks while the channel is empty.
watch_recv(p) ==
    LET h == Handle(procs[p].repo) IN
    /\ procs[p].kind = "daemon"
    /\ procs[p].pc = "recv"
    /\ procs[p].queue # <<>>
    /\ procs' = [procs EXCEPT
                   ![p].queue = Tail(@),
                   ![p].item = Head(procs[p].queue),
                   ![p].pc = "push",
                   ![p].pushRes = "-",
                   ![p].pullRes = "-",
                   ![p].pulls = 0,
                   ![p].xfers = Append(@, Invocation("push", PushArgs(config, h)))]
    /\ UNCHANGED <<files, lock, localExists, cmd, config>>

\* How a blocking Command::output() can end: exit status zero, a non-zero
\* exit status, or Err (the program could not be executed).
ToolResults == {"ok", "nonzero", "execfail"}

WithoutFirst(xs, kind) ==
    LET i == CHOOSE j \in 1..Len(xs) : xs[j].kind = kind /\ \A k \in 1..(j-1) : xs[k].kind # kind
    IN  SubSeq(xs, 1, i - 1) \o SubSeq(xs, i + 1, Len(xs))

\* Mutant: the result of Command::output() is unwrapped, so a push that
\* cannot be executed panics and ends the daemon.
sync_to_remote_fatal(p, res) ==
    LET h == Handle(procs[p].repo) IN
    /\ procs[p].kind = "daemon"
    /\ procs[p].pc = "push"
    /\ IF res = "ok"
       THEN /\ procs' = [procs EXCEPT
                           ![p].pushRes = res,
                           ![p].pc = "pull",
                           ![p].pulls = @ + 1,
                           ![p].xfers = Append(WithoutFirst(@, "push"),
                                               Invocation("pull", PullArgs(config, h)))]
            /\ lock' = lock
       ELSE IF res = "nonzero"
       THEN /\ procs' = [procs EXCEPT
                           ![p].pushRes = res,
                           ![p].pc = "recv",
                           ![p].xfers = WithoutFirst(@, "push")]
            /\ lock' = lock
       ELSE /\ procs' = [procs EXCEPT ![p] = NoProc]
            /\ lock' = Released(lock, p)
    /\ UNCHANGED <<files, localExists, cmd, config>>

\* sync_to_remote after the push has returned (sync.rs:63-76): on success
\* call sync_compile_commands, which starts the pull (sync.rs:80-88);
\* otherwise log and return to the loop.
sync_to_remote(p, res) ==
    LET h == Handle(procs[p].repo) IN
    /\ procs[p].kind = "daemon"
    /\ procs[p].pc = "push"
    /\ IF res = "ok"
       THEN procs' = [procs EXCEPT
                        ![p].pushRes = res,
                        ![p].pc = "pull",
                        ![p].pulls = @ + 1,
                        ![p].xfers = Append(WithoutFirst(@, "push"),
                                            Invocation("pull", PullArgs(config, h)))]
       ELSE procs' = [procs EXCEPT
                        ![p].pushRes = res,
                        ![p].pc = "recv",
                        ![p].xfers = WithoutFirst(@, "push")]
    /\ UNCHANGED <<files, lock, localExists, cmd, config>>

\* sync_compile_commands after the pull has returned (sync.rs:90-102): log
\* either way and return to the loop.
sync_compile_commands(p, res) ==
    /\ procs[p].kind = "daemon"
    /\ procs[p].pc = "pull"
    /\ procs' = [procs EXCEPT ![p].pc = "recv", ![p].pullRes = res,
                                ![p].xfers = WithoutFirst(@, "pull")]
    /\ UNCHANGED <<files, lock, localExists, cmd, config>>

\* ---------------------------------------------------------------- glob
\* glob::Pattern::matches_path: "*" matches any run of characters inside
\* one path component; everything else matches itself.
RECURSIVE GlobMatch(_, _)
GlobMatch(pat, path) ==
    IF pat = <<>> THEN path = <<>>
    ELSE IF Head(pat) = "*"
    THEN \E k \in 0..Len(path) :
            /\ \A i \in 1..k : path[i] # "/"
            /\ GlobMatch(Tail(pat), SubSeq(path, k + 1, Len(path)))
    ELSE /\ path # <<>>
         /\ Head(path) = Head(pat)
         /\ GlobMatch(Tail(pat), Tail(path))

\* The tokens of PID-file paths, in alphabetical order.
TokenOrder == <<".", "/", "/tmp", "_", "a", "b", "msync", "pid", "repo_sync", "x">>

TokenRank(t) == CHOOSE i \in 1..Len(TokenOrder) : TokenOrder[i] = t

RECURSIVE PathLess(_, _)
PathLess(x, y) ==
    IF x = <<>> THEN y # <<>>
    ELSE IF y = <<>> THEN FALSE
    ELSE IF Head(x) = Head(y) THEN PathLess(Tail(x), Tail(y))
    ELSE TokenRank(Head(x)) < TokenRank(Head(y))

\* glob::glob yields the matching paths in alphabetical order.
RECURSIVE SortedPaths(_)
SortedPaths(S) ==
    IF S = {} THEN <<>>
    ELSE LET least == CHOOSE x \in S : \A y \in S \ {x} : PathLess(x, y)
         IN  <<least>> \o SortedPaths(S \ {least})

\* ------------------------------------------------ foreground commands
Idle ==
    [ op |-> "-", repo |-> <<>>, pc |-> "idle", result |-> "-",
      pid |-> ParseError,   \* the PID parsed from the PID file
      snap |-> {},          \* list: the process-table snapshot it works from
      found |-> FALSE,      \* stop, status: the PID was in the process table
      todo |-> <<>>,        \* list: the paths glob has still to yield
      globbed |-> {},       \* list: the paths glob matched
      live |-> {},          \* list: the paths it reported as running
      sent |-> {},          \* PIDs the command sent SIGTERM to
      removed |-> {},       \* PID files the command deleted
      child |-> 0,          \* start: the PID of the daemon it forked
      again |-> "-",        \* the result of the command run just before, when
                            \* that was the same command on the same repository,
                            \* it succeeded and it was still quiet
      quiet |-> TRUE ]      \* nobody has written a PID file after the command
                            \* removed it

\* Results with which main returns Ok(()), i.e. exit status zero.
OkResults == {"Ok", "Running", "Stale", "Stopped", "NotFound"}

\* The invocation of `op repo` that follows the command `before`.
Begin(before, op, repo) ==
    [Idle EXCEPT !.op = op, !.repo = repo,
                 !.again = IF /\ before.pc = "done"
                              /\ before.op = op
                              /\ before.repo = repo
                              /\ before.result \in OkResults
                              /\ before.quiet
                           THEN before.result ELSE "-"]

\* The command returns from main with this result.
Finish(c, result) ==
    [c EXCEPT !.pc = "done", !.result = result, !.snap = {}, !.todo = <<>>]

CanBegin(s) == cmd[s].pc \in {"idle", "done"}

\* A new invocation takes the slot.
Take(s, c) ==
    /\ CanBegin(s)
    /\ cmd' = [cmd EXCEPT ![s] = c]

\* std::fs::remove_file on a PID file: unlinking the file drops the lock that
\* was held on it as far as later opens of the path are concerned.
RemoveFile(f) ==
    /\ files' = [files EXCEPT ![f] = NoFile]
    /\ lock' = [lock EXCEPT ![f] = 0]

\* --- start (main.rs:40-67)
\* Mutant: the check of main.rs:41-45 left out.
start_sync_local_unchecked(s, r) ==
    /\ Take(s, [Begin(cmd[s], "start", r) EXCEPT !.pc = "start_pid"])
    /\ UNCHANGED <<files, lock, localExists, procs, config>>

\* main.rs:41-45: the local path must exist.
start_sync_local(s, r) ==
    /\ Take(s, IF localExists[r]
               THEN [Begin(cmd[s], "start", r) EXCEPT !.pc = "start_pid"]
               ELSE Finish(Begin(cmd[s], "start", r), "LocalPathMissing"))
    /\ UNCHANGED <<files, lock, localExists, procs, config>>

\* Mutant: the check of main.rs:46-50 left out.
start_sync_pidfile_unchecked(s) ==
    /\ cmd[s].pc = "start_pid"
    /\ cmd' = [cmd EXCEPT ![s] = [@ EXCEPT !.pc = "start_fork"]]
    /\ UNCHANGED <<files, lock, localExists, procs, config>>

\* Mutant: the check also reserves the repository; it refuses when another
\* start of the repository has passed the check or its daemon has not yet
\* registered.
start_sync_pidfile_exclusive(s) ==
    LET f == Handle(cmd[s].repo).pid_file
        r == cmd[s].repo
        taken == \/ \E t \in Slots \ {s} : cmd[t].pc = "start_fork" /\ cmd[t].repo = r
                 \/ \E p \in PIDs : procs[p].kind = "daemon" /\ procs[p].repo = r
    IN
    /\ cmd[s].pc = "start_pid"
    /\ cmd' = [cmd EXCEPT ![s] = IF files[f] # NoFile \/ taken
                                 THEN Finish(@, "AlreadyRunning")
                                 ELSE [@ EXCEPT !.pc = "start_fork"]]
    /\ UNCHANGED <<files, lock, localExists, procs, config>>

\* main.rs:46-50: the PID file must not exist.
start_sync_pidfile(s) ==
    LET f == Handle(cmd[s].repo).pid_file IN
    /\ cmd[s].pc = "start_pid"
    /\ cmd' = [cmd EXCEPT ![s] = IF files[f] # NoFile
                                 THEN Finish(@, "AlreadyRunning")
                                 ELSE [@ EXCEPT !.pc = "start_fork"]]
    /\ UNCHANGED <<files, lock, localExists, procs, config>>

\* main.rs:52-66: daemonize.execute().  The foreground process gets
\* Outcome::Parent(Ok) as soon as the background process has been forked off,
\* and Outcome::Parent(Err) when the fork fails (here: no PID is free).
start_sync_daemonize(s) ==
    /\ cmd[s].pc = "start_fork"
    /\ IF FreePids = {}
       THEN /\ cmd' = [cmd EXCEPT ![s] = Finish(@, "DaemonizeFailed")]
            /\ procs' = procs
       ELSE \E p \in FreePids :
            /\ procs' = [procs EXCEPT ![p] = ForkedDaemon(cmd[s].repo)]
            /\ cmd' = [cmd EXCEPT ![s] = Finish([@ EXCEPT !.child = p], "Ok")]
    /\ UNCHANGED <<files, lock, localExists, config>>

\* Mutant: a text that does not parse is read as PID 0 (unwrap_or_default).
ReadPid_lossy(c, next) ==
    LET text == files[Handle(c.repo).pid_file] IN
    IF text = NoFile THEN Finish(c, "NotRunning")
    ELSE IF ParsePidText(text) = ParseError THEN [c EXCEPT !.pid = 0, !.pc = next]
    ELSE [c EXCEPT !.pid = ParsePidText(text), !.pc = next]

\* --- reading a PID file (main.rs:70-76 and 93-97)
\* read_to_string fails when the file is absent ("Sync is not running");
\* parse::<u32> fails on anything but a PID ("Invalid PID in file").
ReadPid(c, next) ==
    LET text == files[Handle(c.repo).pid_file] IN
    IF text = NoFile THEN Finish(c, "NotRunning")
    ELSE IF ParsePidText(text) = ParseError THEN Finish(c, "InvalidPid")
    ELSE [c EXCEPT !.pid = ParsePidText(text), !.pc = next]

\* Mutant: a PID file that cannot be read is taken to be empty.
stop_sync_read_default(s, r) ==
    /\ Take(s, IF files[Handle(r).pid_file] = NoFile
               THEN Finish(Begin(cmd[s], "stop", r), "InvalidPid")
               ELSE ReadPid(Begin(cmd[s], "stop", r), "stop_lookup"))
    /\ UNCHANGED <<files, lock, localExists, procs, config>>

\* --- stop (main.rs:69-90)
stop_sync_read(s, r) ==
    /\ Take(s, ReadPid(Begin(cmd[s], "stop", r), "stop_lookup"))
    /\ UNCHANGED <<files, lock, localExists, procs, config>>

\* main.rs:78-80: System::new_all() and the lookup of the PID in it.
stop_sync_lookup(s) ==
    /\ cmd[s].pc = "stop_lookup"
    /\ cmd' = [cmd EXCEPT ![s] = [@ EXCEPT
                  !.found = cmd[s].pid \in ProcessSnapshot,
                  !.pc = IF cmd[s].pid \in ProcessSnapshot THEN "stop_kill" ELSE "stop_remove"]]
    /\ UNCHANGED <<files, lock, localExists, procs, config>>

\* main.rs:81: kill_with(Signal::Term) is kill(pid, SIGTERM); the signal
\* reaches whatever process has that PID now, and nobody when there is none.
stop_sync_kill(s) ==
    LET pid == cmd[s].pid IN
    /\ cmd[s].pc = "stop_kill"
    /\ procs' = IF pid \in PIDs /\ Alive(pid)
                THEN [procs EXCEPT ![pid].term = TRUE]
                ELSE procs
    /\ cmd' = [cmd EXCEPT ![s] = [@ EXCEPT !.sent = @ \cup {pid}, !.pc = "stop_remove"]]
    /\ UNCHANGED <<files, lock, localExists, config>>

\* Mutant: the PID file is removed only after a process has been signalled.
stop_sync_remove_if_found(s) ==
    LET f == Handle(cmd[s].repo).pid_file IN
    /\ cmd[s].pc = "stop_remove"
    /\ IF ~cmd[s].found
       THEN /\ cmd' = [cmd EXCEPT ![s] = Finish(@, "NotFound")]
            /\ UNCHANGED <<files, lock>>
       ELSE /\ RemoveFile(f)
            /\ cmd' = [cmd EXCEPT ![s] = Finish([@ EXCEPT !.removed = @ \cup {f}], "Stopped")]
    /\ UNCHANGED <<localExists, procs, config>>

\* main.rs:87: remove the PID file, whether or not a process was found.
stop_sync_remove(s) ==
    LET f == Handle(cmd[s].repo).pid_file IN
    /\ cmd[s].pc = "stop_remove"
    /\ IF files[f] = NoFile
       THEN /\ cmd' = [cmd EXCEPT ![s] = Finish(@, "IoError")]
            /\ UNCHANGED <<files, lock>>
       ELSE /\ RemoveFile(f)
            /\ cmd' = [cmd EXCEPT ![s] =
                         Finish([@ EXCEPT !.removed = @ \cup {f}],
                                IF cmd[s].found THEN "Stopped" ELSE "NotFound")]
    /\ UNCHANGED <<localExists, procs, config>>

\* --- status (main.rs:92-112)
status_sync_read(s, r) ==
    /\ Take(s, ReadPid(Begin(cmd[s], "status", r), "status_lookup"))
    /\ UNCHANGED <<files, lock, localExists, procs, config>>

\* main.rs:99-102: the snapshot and the lookup; a live process ends the command.
status_sync_lookup(s) ==
    /\ cmd[s].pc = "status_lookup"
    /\ cmd' = [cmd EXCEPT ![s] =
                 IF cmd[s].pid \in ProcessSnapshot
                 THEN Finish([@ EXCEPT !.found = TRUE], "Running")
                 ELSE [@ EXCEPT !.found = FALSE, !.pc = "status_remove"]]
    /\ UNCHANGED <<files, lock, localExists, procs, config>>

\* Mutant: the stale state is reported, the PID file is kept.
status_sync_report_only(s) ==
    /\ cmd[s].pc = "status_remove"
    /\ cmd' = [cmd EXCEPT ![s] = Finish(@, "Stale")]
    /\ UNCHANGED <<files, lock, localExists, procs, config>>

\* main.rs:103-109: the stale PID file is removed.
status_sync_remove(s) ==
    LET f == Handle(cmd[s].repo).pid_file IN
    /\ cmd[s].pc = "status_remove"
    /\ IF files[f] = NoFile
       THEN /\ cmd' = [cmd EXCEPT ![s] = Finish(@, "IoError")]
            /\ UNCHANGED <<files, lock>>
       ELSE /\ RemoveFile(f)
            /\ cmd' = [cmd EXCEPT ![s] = Finish([@ EXCEPT !.removed = @ \cup {f}], "Stale")]
    /\ UNCHANGED <<localExists, procs, config>>

\* --- list (main.rs:114-152)
\* The wildcard handle of main.rs:181.
ListPattern == Handle(<<"*">>).pid_file

\* main.rs:117: the process snapshot is taken once, before any file is read.
list_syncs_snapshot(s) ==
    /\ Take(s, [Begin(cmd[s], "list", <<"*">>) EXCEPT !.snap = ProcessSnapshot, !.pc = "list_glob"])
    /\ UNCHANGED <<files, lock, localExists, procs, config>>

\* Mutant: list returns after the first entry.
ListAdvance_once(c) == Finish([c EXCEPT !.todo = <<>>], "Ok")

\* The loop of main.rs:124 goes on to the next path, or main.rs:147-151 ends
\* the command when glob has no more.
ListAdvance(c) ==
    IF Tail(c.todo) = <<>>
    THEN Finish([c EXCEPT !.todo = <<>>], "Ok")
    ELSE [c EXCEPT !.todo = Tail(@), !.pc = "list_entry"]

\* main.rs:120-124: glob reads the directory.
list_syncs_glob(s) ==
    LET found == { f \in PidPaths : files[f] # NoFile /\ GlobMatch(ListPattern, f) } IN
    /\ cmd[s].pc = "list_glob"
    /\ cmd' = [cmd EXCEPT ![s] =
                 IF found = {}
                 THEN Finish(@, "Ok")
                 ELSE [@ EXCEPT !.todo = SortedPaths(found), !.globbed = found,
                                !.pc = "list_entry"]]
    /\ UNCHANGED <<files, lock, localExists, procs, config>>

\* main.rs:125-137: read and parse the next PID file (either failure ends the
\* command through `?`), look the PID up in the snapshot.
list_syncs_entry(s) ==
    LET f    == Head(cmd[s].todo)
        text == files[f]
    IN
    /\ cmd[s].pc = "list_entry"
    /\ cmd' = [cmd EXCEPT ![s] =
                 IF text = NoFile THEN Finish(@, "IoError")
                 ELSE IF ParsePidText(text) = ParseError THEN Finish(@, "InvalidPid")
                 ELSE IF ParsePidText(text) \in cmd[s].snap
                 THEN ListAdvance([@ EXCEPT !.pid = ParsePidText(text), !.live = @ \cup {f}])
                 ELSE [@ EXCEPT !.pid = ParsePidText(text), !.pc = "list_remove"]]
    /\ UNCHANGED <<files, lock, localExists, procs, config>>

\* Mutant: the stale entry is printed, the PID file is kept.
list_syncs_remove_skip(s) ==
    /\ cmd[s].pc = "list_remove"
    /\ cmd' = [cmd EXCEPT ![s] = ListAdvance(@)]
    /\ UNCHANGED <<files, lock, localExists, procs, config>>

\* main.rs:138-144: the stale PID file is removed.
list_syncs_remove(s) ==
    LET f == Head(cmd[s].todo) IN
    /\ cmd[s].pc = "list_remove"
    /\ IF files[f] = NoFile
       THEN /\ cmd' = [cmd EXCEPT ![s] = Finish(@, "IoError")]
            /\ UNCHANGED <<files, lock>>
       ELSE /\ RemoveFile(f)
            /\ cmd' = [cmd EXCEPT ![s] = ListAdvance([@ EXCEPT !.removed = @ \cup {f}])]
    /\ UNCHANGED <<localExists, procs, config>>

\* ------------------------------------------------------- specification
\* The working copies that exist: those of "a" and "b"; "a.x" has none.
LocalCopies == { <<"a">>, <<"b">> }

\* No PID file, no process, no command.
Init ==
    /\ files = [f \in PidPaths |-> NoFile]
    /\ lock = [f \in PidPaths |-> 0]
    /\ localExists = [r \in Repos |-> r \in LocalCopies]
    /\ procs = [p \in PIDs |-> NoProc]
    /\ cmd = [s \in Slots |-> Idle]
    /\ config = SyncConfig

\* The steps of the machine around msync.
Environment ==
    \/ \E p \in PIDs : env_spawn(p)
    \/ \E p \in PIDs : env_exit(p)
    \/ \E p \in PIDs : deliver_term(p)
    \/ \E f \in PidPaths, text \in ForeignTexts : env_overwrite(f, text)

\* The steps of the background processes up to the watch loop.
Daemons ==
    \/ \E p \in PIDs : daemon_register(p)
    \/ \E p \in PIDs, ok \in BOOLEAN : watch_subscribe(p, ok)

\* The steps of the watch loop.
WatchLoop ==
    \/ \E p \in PIDs, n \in Notifications : watch_notify(p, n)
    \/ \E p \in PIDs : watch_recv(p)
    \/ \E p \in PIDs, res \in ToolResults : sync_to_remote(p, res)
    \/ \E p \in PIDs, res \in ToolResults : sync_compile_commands(p, res)

\* The steps of `start` in slot s, for the repositories R.
Starting(s, R) ==
    \/ \E r \in R : start_sync_local(s, r)
    \/ start_sync_pidfile(s)
    \/ start_sync_daemonize(s)

\* The steps of `stop` in slot s.
Stopping(s, R) ==
    \/ \E r \in R : stop_sync_read(s, r)
    \/ stop_sync_lookup(s)
    \/ stop_sync_kill(s)
    \/ stop_sync_remove(s)

\* The steps of `status` in slot s.
Checking(s, R) ==
    \/ \E r \in R : status_sync_read(s, r)
    \/ status_sync_lookup(s)
    \/ status_sync_remove(s)

\* The steps of `list` in slot s.
Listing(s) ==
    \/ list_syncs_snapshot(s)
    \/ list_syncs_glob(s)
    \/ list_syncs_entry(s)
    \/ list_syncs_remove(s)

\* --- Spec: the registry of one PID file.  The operator runs start, stop,
\* status and list one after the other on "a" and on "a.x"; daemons,
\* unrelated processes and signals run alongside.  No file changes under the
\* watched directory, so a subscribed daemon stays blocked in recv.
RegistryRepos == { <<"a">>, <<"a", ".", "x">> }

Next ==
    \/ Starting(1, RegistryRepos)
    \/ Stopping(1, RegistryRepos)
    \/ Checking(1, RegistryRepos)
    \/ Listing(1)
    \/ Daemons
    \/ Environment

Spec == Init /\ [][Next]_vars

\* --- SpecList: start and list over two PID files, one command after the
\* other; daemons die, and a PID file may be found emptied.
ListRepos == { <<"a">>, <<"b">> }

NextList ==
    \/ Starting(1, ListRepos)
    \/ Listing(1)
    \/ Daemons
    \/ \E p \in PIDs : env_exit(p)
    \/ \E f \in PidPaths : env_overwrite(f, <<>>)

SpecList == Init /\ [][NextList]_vars

\* --- SpecClean: as Spec, but nobody writes into a PID file from outside.
NextClean ==
    \/ Starting(1, RegistryRepos)
    \/ Stopping(1, RegistryRepos)
    \/ Checking(1, RegistryRepos)
    \/ Listing(1)
    \/ Daemons
    \/ \E p \in PIDs : env_spawn(p)
    \/ \E p \in PIDs : env_exit(p)
    \/ \E p \in PIDs : deliver_term(p)

SpecClean == Init /\ [][NextClean]_vars

\* --- SpecWatch: the watch loop of the daemon of "a", while files change
\* under the watched directory and the daemon may be killed at any moment.
NextWatch ==
    \/ Starting(1, { <<"a">> })
    \/ Daemons
    \/ WatchLoop
    \/ \E p \in PIDs : env_exit(p)

SpecWatch == Init /\ [][NextWatch]_vars

\* --- SpecReuse: one repository, "a".  The operator runs start, stop, status
\* and list one after the other; daemons crash, unrelated processes come and
\* go and take the PIDs that are free.
NextReuse ==
    \/ Starting(1, { <<"a">> })
    \/ Stopping(1, { <<"a">> })
    \/ Checking(1, { <<"a">> })
    \/ Listing(1)
    \/ Daemons
    \/ \E p \in PIDs : env_spawn(p)
    \/ \E p \in PIDs : env_exit(p)
    \/ \E p \in PIDs : deliver_term(p)

SpecReuse == Init /\ [][NextReuse]_vars

\* --- SpecRace: two operators work on repository "a" at the same time: one
\* runs start, the other start, status and list; the steps of their commands
\* interleave with each other and with the daemons.
NextRace ==
    \/ Starting(1, { <<"a">> })
    \/ Starting(2, { <<"a">> })
    \/ Checking(2, { <<"a">> })
    \/ Listing(2)
    \/ Daemons

SpecRace == Init /\ [][NextRace]_vars

\* --- SpecResolve: the configuration file is an input.  Daemons of "a" and
\* "b" run their watch loops under either transport mode and under an
\* absolute or a relative remote base path; the operator starts a daemon
\* when no other process is running, and nobody kills a daemon.
RemoteBases == { <<"/remote">>, <<"srv", "/", "repos">> }

Configs ==
    { [SyncConfig EXCEPT !.use_server = u, !.base_remote_path = b] :
        u \in BOOLEAN, b \in RemoteBases }

InitResolve ==
    /\ files = [f \in PidPaths |-> NoFile]
    /\ lock = [f \in PidPaths |-> 0]
    /\ localExists = [r \in Repos |-> r \in LocalCopies]
    /\ procs = [p \in PIDs |-> NoProc]
    /\ cmd = [s \in Slots |-> Idle]
    /\ config \in Configs

NextResolve ==
    \/ \E r \in ListRepos : FreePids = PIDs /\ start_sync_local(1, r)
    \/ start_sync_pidfile(1)
    \/ start_sync_daemonize(1)
    \/ Daemons
    \/ WatchLoop

SpecResolve == InitResolve /\ [][NextResolve]_vars

\* ================================================================ claims
\* Slot s took a step of its command (a step of somebody else changes at
\* most the slot's quiet mark).
Stepped(s) == [cmd'[s] EXCEPT !.quiet = TRUE] # [cmd[s] EXCEPT !.quiet = TRUE]

\* Slot s began a new invocation of `op` with this step.
Began(s, op) == CanBegin(s) /\ Stepped(s) /\ cmd'[s].op = op /\ cmd'[s].quiet

\* The step left the PID files, the process table and the working copies alone.
Untouched == UNCHANGED <<files, lock, localExists, procs, config>>

Done(s, op) == cmd[s].pc = "done" /\ cmd[s].op = op

PidFileOf(s) == Handle(cmd[s].repo).pid_file

\* ---------------------------------------------------------------- C1
\* C1 as stated: whenever `start R` has returned successfully and `start R`
\* is run again right after it, the second call fails with AlreadyRunning
\* and R's PID file exists.
C1_SecondStartFails ==
    \A s \in Slots :
        (Done(s, "start") /\ cmd[s].again = "Ok")
            => (cmd[s].result = "AlreadyRunning" /\ files[PidFileOf(s)] # NoFile)

\* C1 amended: when `start R` is run right after a successful `start R` and
\* R's PID file has been written by the time the second call checks for it,
\* the second call fails with AlreadyRunning, forks nothing and leaves the
\* one PID file of R as it is.
C1_SecondStartFailsOnceRegistered ==
    [][ \A s \in Slots :
          ( /\ cmd[s].pc = "start_pid"
            /\ cmd[s].again = "Ok"
            /\ Stepped(s)
            /\ files[PidFileOf(s)] # NoFile )
          => ( /\ cmd'[s].pc = "done"
               /\ cmd'[s].result = "AlreadyRunning"
               /\ cmd'[s].child = 0
               /\ files'[PidFileOf(s)] = files[PidFileOf(s)]
               /\ Untouched ) ]_vars

\* A second `start R` that was refused after the first one had succeeded.
C1_Witness ==
    \E s \in Slots :
        /\ Done(s, "start")
        /\ cmd[s].again = "Ok"
        /\ cmd[s].result = "AlreadyRunning"
        /\ files[PidFileOf(s)] # NoFile

\* ---------------------------------------------------------------- C8
\* C8: `start R` checks the local path first and the PID file second; when
\* the local path is missing it fails with LocalPathMissing (even if the PID
\* file exists), when the PID file exists it fails with AlreadyRunning, and
\* a start that fails in either way has forked no process and changed no
\* PID file and no process.
C8_StartPreconditions ==
    [][ \A s \in Slots :
          /\ Began(s, "start") =>
                /\ Untouched
                /\ IF localExists[cmd'[s].repo]
                   THEN cmd'[s].pc = "start_pid"
                   ELSE cmd'[s].pc = "done" /\ cmd'[s].result = "LocalPathMissing"
          /\ (cmd[s].pc = "start_pid" /\ Stepped(s)) =>
                /\ Untouched
                /\ IF files[PidFileOf(s)] # NoFile
                   THEN cmd'[s].pc = "done" /\ cmd'[s].result = "AlreadyRunning"
                   ELSE cmd'[s].pc = "start_fork"
          /\ ( /\ Stepped(s)
               /\ cmd'[s].op = "start"
               /\ cmd'[s].result \in {"LocalPathMissing", "AlreadyRunning"} )
             => (Untouched /\ cmd'[s].child = 0 /\ cmd'[s].removed = {} /\ cmd'[s].sent = {})
      ]_vars

\* `start R` failed with LocalPathMissing although R's PID file exists: the
\* local path was checked first.
C8_Witness ==
    \E s \in Slots :
        /\ Done(s, "start")
        /\ cmd[s].result = "LocalPathMissing"
        /\ files[PidFileOf(s)] # NoFile

\* ---------------------------------------------------------------- C6
\* C6: `stop R` with no PID file for R ends at once with NotRunning (a
\* failure), having created or deleted no file and signalled no process.
C6_StopNotRunning ==
    /\ [](\A s \in Slots :
            (Done(s, "stop") /\ cmd[s].result = "NotRunning")
                => (cmd[s].sent = {} /\ cmd[s].removed = {} /\ cmd[s].result \notin OkResults))
    /\ [][ \A s \in Slots, r \in Repos :
             ( /\ Began(s, "stop")
               /\ cmd'[s].repo = r
               /\ files[Handle(r).pid_file] = NoFile )
             => ( /\ cmd'[s].pc = "done"
                  /\ cmd'[s].result = "NotRunning"
                  /\ Untouched ) ]_vars

\* `stop R` has reported NotRunning while some daemon was running that it
\* could have harmed.
C6_Witness ==
    \E s \in Slots :
        /\ Done(s, "stop")
        /\ cmd[s].result = "NotRunning"
        /\ \E p \in PIDs : Alive(p)

\* ---------------------------------------------------------------- C7
\* C7: `stop R` that has read a valid PID from R's PID file ends with the
\* PID file deleted; it has sent SIGTERM to that PID exactly when a process
\* with that PID was in the process table at the moment stop looked it up,
\* and no step of stop touches any other process.
C7_StopDeletesAndSignals ==
    /\ [](\A s \in Slots :
            (Done(s, "stop") /\ cmd[s].result \notin {"NotRunning", "InvalidPid"})
                => /\ cmd[s].result \in {"Stopped", "NotFound"}
                   /\ cmd[s].removed = {PidFileOf(s)}
                   /\ cmd[s].sent = (IF cmd[s].found THEN {cmd[s].pid} ELSE {})
                   /\ cmd[s].quiet => files[PidFileOf(s)] = NoFile)
    /\ [][ \A s \in Slots :
             /\ (cmd[s].pc = "stop_lookup" /\ Stepped(s))
                   => (cmd'[s].found <=> (cmd[s].pid \in PIDs /\ Alive(cmd[s].pid)))
             /\ (cmd[s].op = "stop" /\ cmd[s].pc # "done" /\ Stepped(s))
                   => \A q \in PIDs \ {cmd[s].pid} : procs'[q] = procs[q]
             /\ (cmd[s].pc = "stop_remove" /\ Stepped(s))
                   => files'[PidFileOf(s)] = NoFile ]_vars

\* `stop R` has signalled the recorded process and deleted the PID file.
C7_Witness ==
    \E s \in Slots :
        /\ Done(s, "stop")
        /\ cmd[s].result = "Stopped"
        /\ cmd[s].sent = {cmd[s].pid}
        /\ files[PidFileOf(s)] = NoFile

\* ---------------------------------------------------------------- C4
\* C4: `status R` that reads a PID with no process behind it deletes R's PID
\* file and succeeds, reporting the stale state; `status R` run right after
\* it (nobody having written the PID file in between) fails with NotRunning.
C4_StatusCleansStale ==
    /\ [](\A s \in Slots :
            /\ (Done(s, "status") /\ cmd[s].result \notin {"NotRunning", "InvalidPid"})
                  => /\ cmd[s].result = (IF cmd[s].found THEN "Running" ELSE "Stale")
                     /\ cmd[s].result \in OkResults
                     /\ cmd[s].removed = (IF cmd[s].found THEN {} ELSE {PidFileOf(s)})
                     /\ cmd[s].sent = {}
            /\ (Done(s, "status") /\ cmd[s].result = "Stale" /\ cmd[s].quiet)
                  => files[PidFileOf(s)] = NoFile
            /\ (Done(s, "status") /\ cmd[s].again = "Stale")
                  => (cmd[s].result = "NotRunning" /\ cmd[s].result \notin OkResults))
    /\ [][ \A s \in Slots :
             (cmd[s].pc = "status_lookup" /\ Stepped(s))
                => (cmd'[s].found <=> (cmd[s].pid \in PIDs /\ Alive(cmd[s].pid))) ]_vars

\* The second `status R` after one that cleaned up a stale PID file.
C4_Witness ==
    \E s \in Slots :
        /\ Done(s, "status")
        /\ cmd[s].again = "Stale"
        /\ cmd[s].result = "NotRunning"

\* ---------------------------------------------------------------- C9
\* The text is a decimal number without a minus sign, white space around it
\* and a plus sign before it allowed.
IsNonNegativeInteger(text) ==
    LET t == Trim(text)
        d == IF t # <<>> /\ Head(t) = "+" THEN Tail(t) ELSE t
    IN  d # <<>> /\ \A i \in 1..Len(d) : IsDigit(d[i])

\* C9: when the text of a PID file is no non-negative integer, the command
\* that reads it (stop and status at their first step, list on reaching the
\* file) ends there with an error, signals no process and leaves the file.
C9_CorruptPidFile ==
    /\ [](\A s \in Slots :
            (cmd[s].pc = "done" /\ cmd[s].result = "InvalidPid")
                => /\ cmd[s].result \notin OkResults
                   /\ cmd[s].sent = {}
                   /\ cmd[s].op \in {"stop", "status"} => cmd[s].removed = {})
    /\ [][ \A s \in Slots :
             /\ \A r \in Repos :
                  ( /\ Began(s, "stop") \/ Began(s, "status")
                    /\ cmd'[s].repo = r
                    /\ files[Handle(r).pid_file] # NoFile
                    /\ ~IsNonNegativeInteger(files[Handle(r).pid_file]) )
                  => (cmd'[s].pc = "done" /\ cmd'[s].result = "InvalidPid" /\ Untouched)
             /\ ( /\ cmd[s].pc = "list_entry"
                  /\ Stepped(s)
                  /\ files[Head(cmd[s].todo)] # NoFile
                  /\ ~IsNonNegativeInteger(files[Head(cmd[s].todo)]) )
                => (cmd'[s].pc = "done" /\ cmd'[s].result = "InvalidPid" /\ Untouched)
         ]_vars

\* `list` has stopped at a PID file whose text is no PID, and the file is
\* still there.
C9_Witness ==
    \E s \in Slots, f \in PidPaths :
        /\ Done(s, "list")
        /\ cmd[s].result = "InvalidPid"
        /\ files[f] # NoFile
        /\ ~IsNonNegativeInteger(files[f])

\* ---------------------------------------------------------------- C5
\* C5: `list` works from the process table as it was when list began and
\* from the PID files glob found (all N of them).  When list has ended
\* successfully, every file whose PID was in that process table (the M live
\* ones) is still there, every other one (the N-M stale ones) has been
\* deleted by list, and list has deleted nothing else.
C5_ListKeepsLiveOnly ==
    /\ [](\A s \in Slots :
            (Done(s, "list") /\ cmd[s].result = "Ok")
                => /\ cmd[s].live \cap cmd[s].removed = {}
                   /\ cmd[s].live \cup cmd[s].removed = cmd[s].globbed
                   /\ \A f \in cmd[s].live : files[f] # NoFile
                   /\ cmd[s].quiet => \A f \in cmd[s].removed : files[f] = NoFile)
    /\ [][ \A s \in Slots :
             /\ Began(s, "list") => cmd'[s].snap = { p \in PIDs : Alive(p) }
             /\ (cmd[s].pc = "list_glob" /\ Stepped(s))
                   => cmd'[s].globbed = { f \in PidPaths : files[f] # NoFile }
             /\ ( /\ cmd[s].pc = "list_entry"
                  /\ Stepped(s)
                  /\ files[Head(cmd[s].todo)] # NoFile
                  /\ IsNonNegativeInteger(files[Head(cmd[s].todo)]) )
                => IF ParsePidText(files[Head(cmd[s].todo)]) \in cmd[s].snap
                   THEN Head(cmd[s].todo) \in cmd'[s].live /\ Untouched
                   ELSE cmd'[s].pc = "list_remove" /\ cmd'[s].live = cmd[s].live /\ Untouched
             /\ (cmd[s].pc = "list_remove" /\ Stepped(s))
                   => /\ files'[Head(cmd[s].todo)] = NoFile
                      /\ cmd'[s].removed = cmd[s].removed \cup {Head(cmd[s].todo)}
                      /\ \A f \in PidPaths \ {Head(cmd[s].todo)} : files'[f] = files[f]
         ]_vars

\* `list` has ended over two PID files, one live and kept, one stale and
\* deleted.
C5_Witness ==
    \E s \in Slots :
        /\ Done(s, "list")
        /\ cmd[s].result = "Ok"
        /\ cmd[s].live # {}
        /\ cmd[s].removed # {}
        /\ \A f \in cmd[s].live : files[f] # NoFile
        /\ \A f \in cmd[s].removed : files[f] = NoFile

\* --------------------------------------------------------------- C10
\* A daemon of repository r has registered and is running.
Syncing(r) ==
    \E p \in PIDs :
        /\ procs[p].kind = "daemon"
        /\ procs[p].repo = r
        /\ procs[p].pc # "forked"

\* The PID file of r exists, holds a PID, and a process with that PID is alive.
PidFileLive(r) ==
    LET text == files[Handle(r).pid_file] IN
    /\ text # NoFile
    /\ ParsePidText(text) \in PIDs
    /\ Alive(ParsePidText(text))

\* C10 as stated: at every moment and for every repository that has a
\* working copy, a daemon of the repository is running if and only if the
\* repository's PID file exists, holds a valid PID and that process is alive.
C10_PidFileIsTruth ==
    \A r \in LocalCopies : Syncing(r) <=> PidFileLive(r)

\* ---------------------------------------------------------------- C2
\* A pull runs only after a push that exited with status zero, and then once.
PullOnlyAfterGoodPush ==
    \A p \in PIDs :
        procs[p].kind = "daemon" =>
            /\ procs[p].pushRes \in {"nonzero", "execfail"}
                  => /\ procs[p].pulls = 0
                     /\ procs[p].pc = "recv"
                     /\ procs[p].xfers = <<>>
            /\ procs[p].pushRes = "ok" => procs[p].pulls = 1
            /\ procs[p].pc = "pull" => procs[p].pushRes = "ok"
            /\ \A i \in 1..Len(procs[p].xfers) :
                  procs[p].xfers[i].kind = "pull" => procs[p].pushRes = "ok"

\* The only inclusion filter of every pull is the configured pattern.
PullFilterIsPattern ==
    \A p \in PIDs :
        \A i \in 1..Len(procs[p].xfers) :
            procs[p].xfers[i].kind = "pull"
                => IncludeFilters(procs[p].xfers[i].args) = {config.sync_back}

\* C2 as stated: a push that fails is followed by no pull, a push that
\* exits zero by exactly one pull before the next notification is taken,
\* and that pull's only inclusion filter is the configured pull-back pattern.
C2_PushThenPull == PullOnlyAfterGoodPush /\ PullFilterIsPattern

\* ---------------------------------------------------------------- C3
\* C3: a daemon has at most one transfer in progress, and one exactly while
\* it is in its push or its pull; a notification that arrives during a
\* transfer is appended to the queue and changes nothing else; a
\* notification is taken from the queue, first in first out, only when no
\* transfer is in progress.
C3_OneTransferAtATime ==
    /\ [](\A p \in PIDs :
            /\ Len(procs[p].xfers) <= 1
            /\ procs[p].xfers # <<>> <=> procs[p].pc \in {"push", "pull"})
    /\ [][ \A p \in PIDs :
             (procs[p].kind = "daemon" /\ procs'[p].kind = "daemon") =>
                /\ Len(procs'[p].queue) > Len(procs[p].queue)
                      => /\ \E n \in Notifications :
                              procs'[p].queue = Append(procs[p].queue, n)
                         /\ procs'[p].xfers = procs[p].xfers
                         /\ procs'[p].pc = procs[p].pc
                /\ Len(procs'[p].queue) < Len(procs[p].queue)
                      => /\ procs[p].pc = "recv"
                         /\ procs[p].xfers = <<>>
                         /\ procs'[p].queue = Tail(procs[p].queue)
         ]_vars

\* A notification is waiting in the queue while a transfer is in progress.
C3_Witness ==
    \E p \in PIDs :
        /\ procs[p].pc \in {"push", "pull"}
        /\ procs[p].xfers # <<>>
        /\ procs[p].queue # <<>>

\* --------------------------------------------------------------- C11
\* The remote address the claim gives for repository r under the loaded
\* configuration.
RemoteAddress(r) ==
    IF config.use_server
    THEN <<"rsync://">> \o config.remote_host \o <<"/">>
             \o config.base_remote_path \o <<"/">> \o r
    ELSE config.remote_user \o <<"@">> \o config.remote_host \o <<":">>
             \o config.base_remote_path \o <<"/">> \o r

\* The remote operand of a transfer: the destination (last operand) of a
\* push, the source (last but one) of a pull.
RemoteOf(x) ==
    IF x.kind = "push" THEN x.args[Len(x.args)] ELSE x.args[Len(x.args) - 1]

\* C11: every push and every pull of the daemon of repository R goes to
\* <user>@<host>:<remoteBase>/<R> in remote-login mode and to
\* rsync://<host>/<remoteBase>/<R> in managed-server mode, and the pull that
\* follows a push uses the address that push used.
C11_RemoteAddress ==
    /\ [](\A p \in PIDs :
            \A i \in 1..Len(procs[p].xfers) :
                RemoteOf(procs[p].xfers[i]) = RemoteAddress(procs[p].repo))
    /\ [][ \A p \in PIDs :
             (procs[p].pc = "push" /\ procs'[p].pc = "pull")
                => RemoteOf(procs'[p].xfers[1]) = RemoteOf(procs[p].xfers[1]) ]_vars

\* A pull of repository "b" is in progress in managed-server mode, from the
\* address rsync://host/srv/repos/b.
C11_Witness ==
    \E p \in PIDs :
        /\ config.use_server
        /\ procs[p].pc = "pull"
        /\ procs[p].xfers # <<>>
        /\ procs[p].xfers[1].kind = "pull"
        /\ RemoteOf(procs[p].xfers[1])
              = <<"rsync://", "host", "/", "srv", "/", "repos", "/", "b">>

\* --------------------------------------------------------------- C12
\* C12 as stated: the PID file of a command on repository R is
\* <directory>/<prefix>_<R>.<extension>, with R in it unchanged.
C12_PidFilePath ==
    \A s \in Slots :
        cmd[s].op \in {"start", "stop", "status"}
            => PidFileOf(s) = DirName(config.pid_file_path)
                                 \o config.pid_file_prefix \o <<"_">> \o cmd[s].repo
                                 \o <<".">> \o config.pid_file_extention

\* --------------------------------------------------------------- C19
\* C19 as stated: a step of start, stop or status on repository R deletes no
\* PID file that the daemon of another repository holds.
C19_OwnPidFileOnly ==
    [][ \A s \in Slots, f \in PidPaths :
          ( /\ Stepped(s)
            /\ cmd'[s].op \in {"start", "stop", "status"}
            /\ files[f] # NoFile
            /\ files'[f] = NoFile
            /\ lock[f] # 0 )
          => procs[lock[f]].repo = cmd'[s].repo ]_vars

\* --------------------------------------------------------------- C20
\* C20 as stated: whenever `stop R` sends SIGTERM, the process that gets it
\* is the daemon that was started for R.
C20_StopSignalsOwnDaemon ==
    [][ \A s \in Slots, p \in PIDs :
          ( /\ cmd[s].pc = "stop_kill"
            /\ Stepped(s)
            /\ procs'[p].term
            /\ ~procs[p].term )
          => (procs[p].kind = "daemon" /\ procs[p].repo = cmd[s].repo) ]_vars

\* --------------------------------------------------------------- C13
\* The daemon has subscribed and is in its loop.
InLoop(q) == q.kind = "daemon" /\ q.pc \in {"recv", "push", "pull"}

\* C13: where nobody terminates a daemon from outside, a daemon that has
\* subscribed stays in its loop for ever; a daemon ends only at startup
\* (registration or subscription failure); a push that fails (non-zero exit
\* or failure to start) and a pull, however it ends, take the loop back to
\* waiting for the next notification.
C13_DaemonNeverExits ==
    [][ \A p \in PIDs :
          /\ InLoop(procs[p]) => InLoop(procs'[p])
          /\ (procs[p].kind = "daemon" /\ procs'[p].kind # "daemon")
                => procs[p].pc \in {"forked", "registered"}
          /\ (procs[p].pc = "push" /\ procs'[p].pc # "push")
                => /\ procs'[p].pushRes \in ToolResults
                   /\ procs'[p].pushRes # "ok" => procs'[p].pc = "recv"
                   /\ procs'[p].queue = procs[p].queue
          /\ (procs[p].pc = "pull" /\ procs'[p].pc # "pull")
                => /\ procs'[p].pullRes \in ToolResults
                   /\ procs'[p].pc = "recv"
                   /\ procs'[p].queue = procs[p].queue ]_vars

\* A daemon is back in recv after a pull that failed, the next notification
\* waiting in its queue.
C13_Witness ==
    \E p \in PIDs :
        /\ InLoop(procs[p])
        /\ procs[p].pc = "recv"
        /\ procs[p].pushRes = "ok"
        /\ procs[p].pullRes \in {"nonzero", "execfail"}
        /\ procs[p].queue # <<>>

\* --------------------------------------------------------------- C14
\* C14 as stated: when the loop takes an error notification from the
\* channel, the daemon lives on, goes back to waiting and starts no transfer.
C14_ErrorNotificationSkipped ==
    [][ \A p \in PIDs :
          ( /\ InLoop(procs[p])
            /\ procs[p].pc = "recv"
            /\ procs[p].queue # <<>>
            /\ Head(procs[p].queue) = "error"
            /\ procs'[p].queue = Tail(procs[p].queue) )
          => ( /\ InLoop(procs'[p])
               /\ procs'[p].pc = "recv"
               /\ procs'[p].xfers = <<>> ) ]_vars

\* --------------------------------------------------------------- C15
\* C15 as stated: the loop takes the notifications in arrival order, one at
\* a time; every change notification it takes starts exactly one push, and
\* a push starts only when a change notification is taken (so there are as
\* many pushes as change notifications taken).
C15_OnePushPerChange ==
    [][ \A p \in PIDs :
          (InLoop(procs[p]) /\ InLoop(procs'[p])) =>
             /\ Len(procs'[p].queue) < Len(procs[p].queue)
                   => /\ procs'[p].queue = Tail(procs[p].queue)
                      /\ Head(procs[p].queue) = "event"
                            => /\ procs'[p].pc = "push"
                               /\ Len(procs'[p].xfers) = 1
                               /\ procs'[p].xfers[1].kind = "push"
             /\ (procs[p].pc # "push" /\ procs'[p].pc = "push")
                   => /\ Len(procs'[p].queue) < Len(procs[p].queue)
                      /\ Head(procs[p].queue) = "event" ]_vars

\* --------------------------------------------------------------- C16
\* The text of PID file f holds a PID and no process has that PID.
Stale(fs, ps, f) ==
    /\ fs[f] # NoFile
    /\ ParsePidText(fs[f]) # ParseError
    /\ ~(ParsePidText(fs[f]) \in PIDs /\ ps[ParsePidText(fs[f])].kind # "none")

\* Slot s returns from `list` with this step.
ListReturns(s) == cmd[s].op = "list" /\ cmd[s].pc # "done" /\ cmd'[s].pc = "done"

\* C16 as stated: when `list` returns, it has visited every PID file that
\* matched the naming convention, and no PID file is left whose recorded
\* process does not exist.
C16_ListVisitsAll ==
    [][ \A s \in Slots :
          ListReturns(s) =>
             /\ cmd'[s].globbed \subseteq
                    ( cmd'[s].live \cup cmd'[s].removed
                      \cup (IF cmd[s].todo # <<>> THEN {Head(cmd[s].todo)} ELSE {}) )
             /\ \A f \in PidPaths : ~Stale(files', procs', f) ]_vars

\* C16 amended: glob matches every PID file there is when `list` reads the
\* directory; when `list` returns successfully it has visited every one of
\* them, has kept those whose PID was in the process table it took at its
\* start and has deleted all the others.
C16_ListVisitsAllOnSuccess ==
    [][ \A s \in Slots :
          /\ (cmd[s].pc = "list_glob" /\ Stepped(s))
                => cmd'[s].globbed
                      = { f \in PidPaths : files[f] # NoFile /\ GlobMatch(ListPattern, f) }
          /\ ( /\ cmd[s].pc = "list_entry"
               /\ Stepped(s)
               /\ Head(cmd[s].todo) \in cmd'[s].live )
             => ParsePidText(files[Head(cmd[s].todo)]) \in cmd[s].snap
          /\ (ListReturns(s) /\ cmd'[s].result = "Ok")
                => /\ cmd'[s].globbed = cmd'[s].live \cup cmd'[s].removed
                   /\ cmd'[s].quiet =>
                         \A f \in cmd'[s].globbed \ cmd'[s].live : files'[f] = NoFile ]_vars

\* `list` has returned successfully over two PID files, both stale and both
\* deleted.
C16_Witness ==
    \E s \in Slots :
        /\ Done(s, "list")
        /\ cmd[s].result = "Ok"
        /\ Cardinality(cmd[s].globbed) = 2
        /\ cmd[s].removed = cmd[s].globbed
        /\ \A f \in cmd[s].globbed : files[f] = NoFile

\* --------------------------------------------------------------- C17
\* C17: the check of `start` passes exactly when the PID file is absent,
\* whatever other starts and unregistered daemons there are, and writes
\* nothing; the fork that follows does not check again and writes no PID
\* file either (the daemon registers later, in a step of its own).  So two
\* starts of one repository can both pass the check and both daemonize.
C17_CheckThenRegister ==
    [][ \A s \in Slots :
          /\ (cmd[s].pc = "start_pid" /\ Stepped(s))
                => /\ cmd'[s].pc = (IF files[PidFileOf(s)] = NoFile
                                    THEN "start_fork" ELSE "done")
                   /\ Untouched
          /\ (cmd[s].pc = "start_fork" /\ Stepped(s) /\ FreePids # {})
                => /\ cmd'[s].result = "Ok"
                   /\ cmd'[s].child \in FreePids
                   /\ procs'[cmd'[s].child] = ForkedDaemon(cmd[s].repo)
                   /\ files' = files
                   /\ lock' = lock ]_vars

\* Two starts of the same repository have both succeeded, each has forked a
\* daemon of its own, and neither daemon has registered yet.
C17_Witness ==
    /\ Done(1, "start") /\ Done(2, "start")
    /\ cmd[1].result = "Ok" /\ cmd[2].result = "Ok"
    /\ cmd[1].repo = cmd[2].repo
    /\ cmd[1].child # cmd[2].child
    /\ procs[cmd[1].child] = ForkedDaemon(cmd[1].repo)
    /\ procs[cmd[2].child] = ForkedDaemon(cmd[2].repo)
    /\ files[PidFileOf(1)] = NoFile

\* --------------------------------------------------------------- C18
\* C18 as stated: when status or list deletes a PID file, no process has the
\* PID the file records at that moment.
C18_DeleteOnlyDead ==
    [][ \A s \in Slots, f \in PidPaths :
          ( /\ cmd[s].pc \in {"status_remove", "list_remove"}
            /\ Stepped(s)
            /\ files[f] # NoFile
            /\ files'[f] = NoFile )
          => ~( /\ ParsePidText(files[f]) \in PIDs
                /\ Alive(ParsePidText(files[f])) ) ]_vars

====
